---- MODULE Spec2Model ----
(***************************************************************************)
(* Model of the vscode-cadence extension core:                             *)
(*   - LanguageServerAPI (emulator/server/language-server.ts): the         *)
(*     supervisor of the language-server client, its client lock and the   *)
(*     emulator watcher;                                                   *)
(*   - StateCache (utils/state-cache), the reactive value cache that       *)
(*     CliVersionsProvider (flow-cli/cli-versions-provider.ts) keeps one   *)
(*     of per binary and one for their aggregate.                          *)
(*   - InstallFlowCLI.install, which stops and starts the language server  *)
(*     around the installation of the Flow CLI.                            *)
(* The JavaScript event loop is modelled by its macrotasks: every action   *)
(* is one run-to-completion segment of a handler, from one await (or the   *)
(* call) to the next.                                                      *)
(***************************************************************************)
EXTENDS Integers, Sequences, FiniteSets, TLC

\* Runs of the watchEmulator callback, calls of startClient, stopClient,
\* restart, deactivate and sendRequest from outside the class, and exits of the
\* analysis process, in one behaviour.
MaxOps == 2

\* getValue() calls made on the cache entry in one behaviour.
MaxCallers == 3

\* Executions of the entry's underlying computation in one behaviour.
MaxRuns == 3

\* invalidate() calls counted while one fetch is outstanding.
MaxInvalidates == 2

\* Calls of add, remove, refresh and getVersions on the provider in one behaviour.
MaxCalls == 4

VARIABLES
  procs,              \* the invocations so far: <<[kind, origin, flag, pc, tr]>>
  clientLock,         \* #clientLock: [holder, queue]
  client,             \* this.client: 0 (null) or the index of a transport
  transports,         \* every LanguageClient constructed: <<[st, arg, closes]>>
  running,            \* this.running
  initializedClient,  \* this.#initializedClient
  emulatorConnected,  \* this.#emulatorConnected
  errorsShown,        \* calls of window.showErrorMessage
  effects,            \* what the last step called or returned:
                      \* [notified, slept, result, listener]
  ops,                \* watcher runs, outside calls and process exits so far
  entry,              \* a StateCache: [valid, fetching, owed, value, runs, inv, absorbed]
  callers,            \* the getValue() calls on it: <<[st, run, result]>>
  runResult,          \* how each execution of its computation settled
  tool,               \* what a binary answers to the version queries: [json, plain]
  fetched,            \* the resolution of the binary: [done, binary]
  keys,               \* Object.keys(#caches)
  caches,             \* #caches: for each name the index of its cache in leaves, or 0
  leaves,             \* every per-binary StateCache created
  rootCache,          \* #rootCache, with the getValue() calls it awaits and their results
  call,               \* the last call on the provider; what getVersions returned in it
  calls,              \* calls of add, remove, refresh and getVersions so far
  recomputed,         \* the last of these calls, whether it found the caches at
                      \* rest, and the executions of the fetchers begun from it
                      \* on: [op, quiet, root, leaf]
  installer           \* InstallFlowCLI.install: its position, the platform, the
                      \* GitHub token, languageServerApi.isActive as it was read,
                      \* and what it has called so far:
                      \* [pc, platform, githubToken, isActive, active, log]

lsVars == <<procs, clientLock, client, transports, running, initializedClient,
            emulatorConnected, errorsShown, effects, ops>>

cacheVars == <<entry, callers, runResult>>

registryVars == <<keys, caches, leaves, rootCache, call, calls, recomputed>>

providerVars == <<tool, fetched, registryVars>>

vars == <<lsVars, cacheVars, providerVars, installer>>

----------------------------------------------------------------------------
\* async-mutex Mutex: acquire() takes the lock when it is free and queues the
\* caller otherwise; release() hands the lock to the head of the queue.

Acquire(l, p) ==
  IF l.holder = 0
    THEN [holder |-> p, queue |-> l.queue]
    ELSE [holder |-> l.holder, queue |-> Append(l.queue, p)]

Release(l) ==
  IF l.queue = <<>>
    THEN [holder |-> 0, queue |-> <<>>]
    ELSE [holder |-> Head(l.queue), queue |-> Tail(l.queue)]

\* `${enableFlow}` in the launch argument
BoolStr(b) == IF b THEN "true" ELSE "false"

\* getPublicState of the language client: what a StateChangeEvent carries
\* (a transport is "starting", "running", "failed" (start rejected), "crashed",
\* "stopping" or "stopped"; before start() it is "initial")
PublicState(st) ==
  IF st = "running" THEN "Running"
  ELSE IF st = "starting" THEN "Starting"
  ELSE "Stopped"

\* the onDidChangeState listener: this.running = e.newState === State.Running;
\* the client fires the event only when its public state changes
ListenerRunning(old, new) ==
  IF PublicState(old) # PublicState(new)
    THEN PublicState(new) = "Running"
    ELSE running

\* a step that calls neither ext.emulatorStateChanged() (notified) nor
\* sleepSynchronously (slept), returns nothing from sendRequest (result) and
\* runs no listener (listener: what the listener runs did, in order)
NoEffects == [notified |-> 0, slept |-> 0, result |-> "none", listener |-> <<>>]

\* faulty variant of ListenerDelays: the delay follows every report of a
\* state that is not Running
ListenerDelaysUninitialized(newState) == newState # "Running"

\* line 117: this.#initializedClient && !this.running, once line 116 has set
\* this.running for the event's newState
ListenerDelays(newState) == initializedClient /\ newState # "Running"

\* one run of the listener, lines 116-121, in the order of its statements
ListenerRun(newState) ==
  <<IF newState = "Running" THEN "running = true" ELSE "running = false">>
  \o (IF ListenerDelays(newState) THEN <<"sleepSynchronously">> ELSE <<>>)
  \o <<"emulatorStateChanged">>

\* the listener when the client goes from old to new: the delay of lines
\* 117-119, then ext.emulatorStateChanged()
ListenerEffects(old, new, eff) ==
  IF PublicState(old) # PublicState(new)
    THEN [eff EXCEPT !.notified = @ + 1,
                     !.slept = @ + (IF ListenerDelays(PublicState(new)) THEN 1 ELSE 0),
                     !.listener = @ \o ListenerRun(PublicState(new))]
    ELSE eff

\* checkPortStatus settles with 'open', 'closed' or an error
PortStatus == {"open", "closed", "error"}

\* faulty variant of EmulatorExists: a failed probe counts as reachable
EmulatorExistsUnlessClosed(status) == status # "closed"

\* emulatorExists, lines 64-74
EmulatorExists(status) == IF status = "error" THEN FALSE ELSE status = "open"

\* an invocation that has just called acquire(); origin: who called it
NewProc(kind, origin, flag) ==
  [kind |-> kind, origin |-> origin, flag |-> flag, pc |-> "acquire", tr |-> 0]

ProcIds == 1..Len(procs)

\* a lock grant resumes its owner in a microtask, before any other macrotask
MicrotaskPending ==
  clientLock.holder # 0 /\ procs[clientLock.holder].pc \in {"acquire", "compare"}

\* an invocation that returned keeps its slot and nothing else
DoneProc ==
  [kind |-> "done", origin |-> "done", flag |-> "undefined", pc |-> "done", tr |-> 0]

LSInit ==
  /\ procs = <<NewProc("start", "constructor", "undefined")>>
  /\ clientLock = [holder |-> 1, queue |-> <<>>]
  /\ client = 0
  /\ transports = <<>>
  /\ running = FALSE
  /\ initializedClient = FALSE
  /\ emulatorConnected = FALSE
  /\ errorsShown = 0
  /\ effects = NoEffects
  /\ ops = 0

CacheInit ==
  /\ entry = [valid |-> FALSE, fetching |-> FALSE, owed |-> FALSE,
              value |-> "none", runs |-> 0, inv |-> 0, absorbed |-> 0]
  /\ callers = <<>>
  /\ runResult = <<>>

ToolInit ==
  /\ tool = [json |-> "rejects", plain |-> [rejects |-> TRUE, stdout |-> "", stderr |-> ""]]
  /\ fetched = [done |-> FALSE, binary |-> {}]

\* KNOWN_FLOW_COMMANDS, lines 10-12
KnownFlowCommands == {"flow"}

\* the names callers pass to add, remove and the constructor
Commands == KnownFlowCommands \cup {"flow-next"}

\* lines 57-60: a new StateCache for command with the one subscription of add
NewLeaf(command) ==
  [name |-> command, valid |-> FALSE, fetching |-> FALSE, owed |-> FALSE,
   value |-> "none", runs |-> 0, inv |-> 0, absorbed |-> 0, subs |-> 1]

\* the constructor, lines 30-53: add() for the known commands and the seed
\* binaries, then the root cache, stale
RegistryInit(seedBinaries) ==
  /\ keys = <<"flow">> \o seedBinaries
  /\ caches = [c \in Commands |->
                 IF c = "flow" THEN 1
                 ELSE IF \E k \in 1..Len(seedBinaries) : seedBinaries[k] = c THEN 2 ELSE 0]
  /\ leaves = [k \in 1..(1 + Len(seedBinaries)) |->
                 NewLeaf((<<"flow">> \o seedBinaries)[k])]
  /\ rootCache = [valid |-> FALSE, fetching |-> FALSE, owed |-> FALSE, value |-> "none",
                  runs |-> 0, inv |-> 0, absorbed |-> 0,
                  list |-> <<>>, resolved |-> <<>>, awaiting |-> <<>>, waiting |-> 0,
                  snapshot |-> <<>>, snap |-> 0]
  /\ call = [op |-> "constructor", name |-> "", returned |-> <<>>]
  /\ calls = 0
  /\ recomputed = [op |-> "constructor", quiet |-> TRUE, root |-> 0,
                   leaf |-> [k \in 1..(1 + Len(seedBinaries)) |-> 0]]

\* InstallFlowCLI after its constructor (lines 37-47), install() not called:
\* process.platform, whether GITHUB_TOKEN is set, and the isActive property of
\* the language server API ("undefined" when it has none)
InstallerInit(platform, githubToken, isActive) ==
  installer = [pc |-> "idle", platform |-> platform, githubToken |-> githubToken,
               isActive |-> isActive, active |-> FALSE, log |-> <<>>]

\* the extension after construction
Init ==
  /\ LSInit /\ CacheInit /\ ToolInit /\ RegistryInit(<<>>)
  /\ InstallerInit("linux", FALSE, "undefined")

\* the provider constructed with or without a seed binary
ProviderInit ==
  /\ LSInit /\ CacheInit /\ ToolInit
  /\ InstallerInit("linux", FALSE, "undefined")
  /\ \E seedBinaries \in {<<>>, <<"flow-next">>} : RegistryInit(seedBinaries)

----------------------------------------------------------------------------
\* LanguageServerAPI.startClient

\* faulty variant of LaunchArg: the recorded connectivity state in place of the argument
LaunchArgFromState(enableFlow) == BoolStr(emulatorConnected)

\* the launch argument `--enable-flow-client=${enableFlow}`
LaunchArg(enableFlow) == enableFlow

\* faulty variant of ProbesEmulator: startClient probes whatever it was given
ProbesEmulatorAlways(enableFlow) == TRUE

\* line 79: enableFlow === undefined
ProbesEmulator(enableFlow) == enableFlow = "undefined"

\* line 77: the lock is granted; lines 79-87 up to the first await inside the lock
StartClientBegin(p) ==
  /\ procs[p].kind = "start" /\ procs[p].pc = "acquire"
  /\ clientLock.holder = p
  /\ IF ProbesEmulator(procs[p].flag)
       THEN /\ procs' = [procs EXCEPT ![p].pc = "probing"]
            /\ UNCHANGED initializedClient
       ELSE /\ procs' = [procs EXCEPT ![p].pc = "config"]
            /\ initializedClient' = FALSE
  /\ effects' = NoEffects
  /\ UNCHANGED <<clientLock, client, transports, running, emulatorConnected,
                 errorsShown, ops>>
  /\ UNCHANGED <<cacheVars, providerVars, installer>>

\* lines 81-87: the port check of emulatorExists() settled with status
StartClientProbed(p, status) ==
  /\ procs[p].kind = "start" /\ procs[p].pc = "probing"
  /\ procs' = [procs EXCEPT ![p].pc = "config",
                            ![p].flag = BoolStr(EmulatorExists(status))]
  /\ emulatorConnected' = EmulatorExists(status)
  /\ initializedClient' = FALSE
  /\ effects' = NoEffects
  /\ UNCHANGED <<clientLock, client, transports, running, errorsShown, ops>>
  /\ UNCHANGED <<cacheVars, providerVars, installer>>

\* lines 87-124: Config.getConfigPath() settled. ok: the client is constructed,
\* the listener registered and client.start() called. Otherwise getConfigPath
\* rejected or the LanguageClient constructor threw: the exception leaves
\* startClient, which has no try/finally around line 142.
StartClientLaunch(p, ok) ==
  /\ procs[p].kind = "start" /\ procs[p].pc = "config"
  /\ IF ok
       THEN /\ transports' = Append(transports,
                               [st |-> "starting", arg |-> LaunchArg(procs[p].flag),
                                closes |-> 0])
            /\ client' = Len(transports) + 1
            /\ running' = ListenerRunning("initial", "starting")
            /\ effects' = ListenerEffects("initial", "starting", NoEffects)
            /\ procs' = [procs EXCEPT ![p].pc = "launching",
                                      ![p].tr = Len(transports) + 1]
       ELSE /\ procs' = [procs EXCEPT ![p].pc = "threw"]
            /\ effects' = NoEffects
            /\ UNCHANGED <<transports, client, running>>
  /\ UNCHANGED <<clientLock, initializedClient, emulatorConnected,
                 errorsShown, ops>>
  /\ UNCHANGED <<cacheVars, providerVars, installer>>

\* the transport state after client.start() settled
StartedState(st, ok) ==
  IF st = "starting" THEN (IF ok THEN "running" ELSE "failed") ELSE st

\* faulty variant of LaunchFailed: the catch handler starts the client again
LaunchFailedRetry(ps, l) ==
  [procs |-> Append(ps, NewProc("start", "retry", "undefined")),
   lock  |-> Acquire(l, Len(ps) + 1),
   shown |-> errorsShown + 1]

\* .catch of line 129: the failure is shown, nothing is started again
LaunchFailed(ps, l) == [procs |-> ps, lock |-> l, shown |-> errorsShown + 1]

\* lines 124-142: client.start() settled; then (observers notified, the
\* configuration watcher registered) or catch, #initializedClient, the messages
\* and the release run without another await
StartClientSettle(p, ok) ==
  /\ procs[p].kind = "start" /\ procs[p].pc = "launching"
  /\ ~MicrotaskPending
  /\ LET t   == procs[p].tr
         old == transports[t].st
         new == StartedState(old, ok)
         ps  == [procs EXCEPT ![p] = DoneProc]
         l   == Release(clientLock)
         res == IF ok THEN [procs |-> ps, lock |-> l, shown |-> errorsShown]
                      ELSE LaunchFailed(ps, l)
     IN /\ transports' = [transports EXCEPT ![t].st = new]
        /\ running' = ListenerRunning(old, new)
        /\ procs' = res.procs
        /\ clientLock' = res.lock
        /\ errorsShown' = res.shown
        /\ effects' = [ListenerEffects(old, new, NoEffects) EXCEPT
                         !.notified = @ + (IF ok THEN 1 ELSE 0)]
  /\ initializedClient' = TRUE
  /\ UNCHANGED <<client, emulatorConnected, ops>>
  /\ UNCHANGED <<cacheVars, providerVars, installer>>

----------------------------------------------------------------------------
\* LanguageServerAPI.stopClient and deactivate

\* client.stop() called on a transport in state st
StopRequested(st) == IF st \in {"starting", "running"} THEN "stopping" ELSE st

\* client.stop() settled
StoppedState(st, ok) == IF ok /\ st = "stopping" THEN "stopped" ELSE st

\* faulty variant of StopClientEnd: a failed shutdown leaves stopClient as an
\* exception, before lines 148-150
StopClientEndRethrows(p, ok) ==
  IF ok
    THEN [client |-> 0, notified |-> 1, lock |-> Release(clientLock), proc |-> DoneProc]
    ELSE [client |-> client, notified |-> 0, lock |-> clientLock,
          proc |-> [procs[p] EXCEPT !.pc = "threw"]]

\* lines 147-150 once client?.stop() is over (ok: it resolved; there was no
\* client to stop counts as ok): .catch(() => {}) swallows the error, the
\* handle is cleared, the observers are notified, the lock is released
StopClientEnd(p, ok) ==
  [client |-> 0, notified |-> 1, lock |-> Release(clientLock), proc |-> DoneProc]

\* lines 146-147 (and 148-150 when there is no client to stop)
StopClientBegin(p) ==
  /\ procs[p].kind = "stop" /\ procs[p].pc = "acquire"
  /\ clientLock.holder = p
  /\ IF client = 0
       THEN LET end == StopClientEnd(p, TRUE)
            IN /\ procs' = [procs EXCEPT ![p] = end.proc]
               /\ clientLock' = end.lock
               /\ client' = end.client
               /\ effects' = [NoEffects EXCEPT !.notified = end.notified]
               /\ UNCHANGED <<transports, running>>
       ELSE /\ procs' = [procs EXCEPT ![p].pc = "stopping", ![p].tr = client]
            /\ transports' = [transports EXCEPT
                                ![client].st = StopRequested(transports[client].st)]
            /\ running' = ListenerRunning(transports[client].st,
                                          StopRequested(transports[client].st))
            /\ effects' = ListenerEffects(transports[client].st,
                                          StopRequested(transports[client].st), NoEffects)
            /\ UNCHANGED <<clientLock, client>>
  /\ UNCHANGED <<initializedClient, emulatorConnected, errorsShown, ops>>
  /\ UNCHANGED <<cacheVars, providerVars, installer>>

\* lines 147-150: client.stop() settled, its error swallowed
StopClientSettle(p, ok) ==
  /\ procs[p].kind = "stop" /\ procs[p].pc = "stopping"
  /\ ~MicrotaskPending
  /\ LET t   == procs[p].tr
         end == StopClientEnd(p, ok)
     IN /\ transports' = [transports EXCEPT ![t].st = StoppedState(transports[t].st, ok)]
        /\ client' = end.client
        /\ procs' = [procs EXCEPT ![p] = end.proc]
        /\ clientLock' = end.lock
        /\ effects' = [NoEffects EXCEPT !.notified = end.notified]
  /\ UNCHANGED <<running, initializedClient, emulatorConnected, errorsShown, ops>>
  /\ UNCHANGED <<cacheVars, providerVars, installer>>

\* lines 41-44: this.client?.stop(), without the lock (with no client the
\* call does nothing)
Deactivate ==
  /\ ~MicrotaskPending
  /\ ops < MaxOps
  /\ ops' = ops + 1
  /\ client # 0
  /\ procs' = Append(procs, [kind |-> "deactivate", origin |-> "call",
                             flag |-> "undefined", pc |-> "stopping", tr |-> client])
  /\ transports' = [transports EXCEPT
                      ![client].st = StopRequested(transports[client].st)]
  /\ running' = ListenerRunning(transports[client].st,
                                StopRequested(transports[client].st))
  /\ effects' = ListenerEffects(transports[client].st,
                                StopRequested(transports[client].st), NoEffects)
  /\ UNCHANGED <<clientLock, client, initializedClient, emulatorConnected,
                 errorsShown>>
  /\ UNCHANGED <<cacheVars, providerVars, installer>>

\* line 43: the stop requested by deactivate settled
DeactivateSettle(p, ok) ==
  /\ procs[p].kind = "deactivate" /\ procs[p].pc = "stopping"
  /\ ~MicrotaskPending
  /\ LET t == procs[p].tr
     IN transports' = [transports EXCEPT ![t].st = StoppedState(transports[t].st, ok)]
  /\ procs' = [procs EXCEPT ![p] = DoneProc]
  /\ effects' = NoEffects
  /\ UNCHANGED <<clientLock, client, running, initializedClient, emulatorConnected,
                 errorsShown, ops>>
  /\ UNCHANGED <<cacheVars, providerVars, installer>>

----------------------------------------------------------------------------
\* LanguageServerAPI.restart: stopClient() and startClient(enableFlow) are
\* called one after the other; each runs up to its acquire() at once.

RestartProcs(ps, enableFlow) ==
  ps \o <<NewProc("stop", "restart", "undefined"), NewProc("start", "restart", enableFlow)>>

\* faulty variant of RestartLock: startClient called before stopClient
RestartLockStartFirst(l, n) == Acquire(Acquire(l, n + 2), n + 1)

RestartLock(l, n) == Acquire(Acquire(l, n + 1), n + 2)

----------------------------------------------------------------------------
\* LanguageServerAPI.watchEmulator: one run of the setInterval callback

\* line 49: the callback fires and asks for the lock
WatchEmulatorTick ==
  /\ ~MicrotaskPending
  /\ ops < MaxOps
  /\ ops' = ops + 1
  /\ procs' = Append(procs, NewProc("tick", "watcher", "undefined"))
  /\ clientLock' = Acquire(clientLock, Len(procs) + 1)
  /\ effects' = NoEffects
  /\ UNCHANGED <<client, transports, running, initializedClient, emulatorConnected,
                 errorsShown>>
  /\ UNCHANGED <<cacheVars, providerVars, installer>>

\* line 50: the lock is granted, the probe begins
WatchEmulatorBegin(p) ==
  /\ procs[p].kind = "tick" /\ procs[p].pc = "acquire"
  /\ clientLock.holder = p
  /\ procs' = [procs EXCEPT ![p].pc = "probing"]
  /\ effects' = NoEffects
  /\ UNCHANGED <<clientLock, client, transports, running, initializedClient,
                 emulatorConnected, errorsShown, ops>>
  /\ UNCHANGED <<cacheVars, providerVars, installer>>

\* line 50: the port check of emulatorExists() settled with status
WatchEmulatorProbed(p, status) ==
  /\ procs[p].kind = "tick" /\ procs[p].pc = "probing"
  /\ ~MicrotaskPending
  /\ procs' = [procs EXCEPT ![p].pc = "compare",
                            ![p].flag = BoolStr(EmulatorExists(status))]
  /\ effects' = NoEffects
  /\ UNCHANGED <<clientLock, client, transports, running, initializedClient,
                 emulatorConnected, errorsShown, ops>>
  /\ UNCHANGED <<cacheVars, providerVars, installer>>

\* faulty variant of WatchEmulatorCompare: the early return of lines 52-55 is missing
WatchEmulatorCompareAlways(p) ==
  /\ procs[p].kind = "tick" /\ procs[p].pc = "compare"
  /\ emulatorConnected' = (procs[p].flag = "true")
  /\ procs' = RestartProcs([procs EXCEPT ![p] = DoneProc], procs[p].flag)
  /\ clientLock' = RestartLock(Release(clientLock), Len(procs))
  /\ effects' = NoEffects
  /\ UNCHANGED <<client, transports, running, initializedClient, errorsShown, ops>>
  /\ UNCHANGED <<cacheVars, providerVars, installer>>

\* lines 52-60, run in one piece once emulatorFound is known
WatchEmulatorCompare(p) ==
  /\ procs[p].kind = "tick" /\ procs[p].pc = "compare"
  /\ LET emulatorFound == procs[p].flag = "true"
     IN IF emulatorConnected = emulatorFound
          THEN /\ procs' = [procs EXCEPT ![p] = DoneProc]
               /\ clientLock' = Release(clientLock)
               /\ UNCHANGED emulatorConnected
          ELSE /\ emulatorConnected' = emulatorFound
               /\ procs' = RestartProcs([procs EXCEPT ![p] = DoneProc],
                                        BoolStr(emulatorFound))
               /\ clientLock' = RestartLock(Release(clientLock), Len(procs))
  /\ effects' = NoEffects
  /\ UNCHANGED <<client, transports, running, initializedClient, errorsShown, ops>>
  /\ UNCHANGED <<cacheVars, providerVars, installer>>

----------------------------------------------------------------------------
\* Calls from the rest of the extension, and the transport's own events

CallStartClient(enableFlow) ==
  /\ ~MicrotaskPending
  /\ ops < MaxOps
  /\ ops' = ops + 1
  /\ procs' = Append(procs, NewProc("start", "call", enableFlow))
  /\ clientLock' = Acquire(clientLock, Len(procs) + 1)
  /\ effects' = NoEffects
  /\ UNCHANGED <<client, transports, running, initializedClient, emulatorConnected,
                 errorsShown>>
  /\ UNCHANGED <<cacheVars, providerVars, installer>>

CallStopClient ==
  /\ ~MicrotaskPending
  /\ ops < MaxOps
  /\ ops' = ops + 1
  /\ procs' = Append(procs, NewProc("stop", "call", "undefined"))
  /\ clientLock' = Acquire(clientLock, Len(procs) + 1)
  /\ effects' = NoEffects
  /\ UNCHANGED <<client, transports, running, initializedClient, emulatorConnected,
                 errorsShown>>
  /\ UNCHANGED <<cacheVars, providerVars, installer>>

CallRestart(enableFlow) ==
  /\ ~MicrotaskPending
  /\ ops < MaxOps
  /\ ops' = ops + 1
  /\ procs' = RestartProcs(procs, BoolStr(enableFlow))
  /\ clientLock' = RestartLock(clientLock, Len(procs))
  /\ effects' = NoEffects
  /\ UNCHANGED <<client, transports, running, initializedClient, emulatorConnected,
                 errorsShown>>
  /\ UNCHANGED <<cacheVars, providerVars, installer>>

\* faulty variant of SendRequestLock: the request waits for the client lock
SendRequestLockWaits(l, n) == Acquire(l, n)

\* lines 162-167: #sendRequest makes no acquire() call
SendRequestLock(l, n) == l

\* lines 162-167, and the wrappers of lines 169-202: this.client?.sendRequest;
\* without a client the result is undefined
SendRequest ==
  /\ ~MicrotaskPending
  /\ ops < MaxOps
  /\ ops' = ops + 1
  /\ IF client = 0
       THEN /\ procs' = procs
            /\ effects' = [NoEffects EXCEPT !.result = "undefined"]
       ELSE /\ procs' = Append(procs, [kind |-> "request", origin |-> "call",
                                       flag |-> "undefined", pc |-> "sent", tr |-> client])
            /\ effects' = NoEffects
  /\ clientLock' = SendRequestLock(clientLock, Len(procs) + 1)
  /\ UNCHANGED <<client, transports, running, initializedClient, emulatorConnected,
                 errorsShown>>
  /\ UNCHANGED <<cacheVars, providerVars, installer>>

\* line 163: the request settled, with the server's response while the
\* transport is running, or with an error, which #sendRequest passes on
SendRequestSettle(p, outcome) ==
  /\ procs[p].kind = "request" /\ procs[p].pc = "sent"
  /\ ~MicrotaskPending
  /\ outcome = "response" => transports[procs[p].tr].st = "running"
  /\ procs' = [procs EXCEPT ![p] = DoneProc]
  /\ effects' = [NoEffects EXCEPT !.result = outcome]
  /\ UNCHANGED <<clientLock, client, transports, running, initializedClient,
                 emulatorConnected, errorsShown, ops>>
  /\ UNCHANGED <<cacheVars, providerVars, installer>>

\* The LanguageClient of lines 95-113 is built without an errorHandler and
\* without connectionOptions.maxRestartCount: the library's default handler
\* decides what follows an exit of the analysis process. It restarts the
\* server unless this is more than the MaxRestartCount-th exit it has recorded
\* and the oldest recorded one is less than three minutes old (recent).
MaxRestartCount == 4

CloseAction(closes, recent) ==
  IF closes <= MaxRestartCount THEN "Restart"
  ELSE IF recent THEN "DoNotRestart" ELSE "Restart"

\* the analysis process of transport t exits on its own. The client reports
\* Stopped; on Restart it then calls start() on itself and reports Starting in
\* the same task: the listener of lines 115-122 runs once or twice.
ConnectionClosed(t, recent) ==
  /\ ~MicrotaskPending
  /\ transports[t].st = "running"
  /\ LET n == transports[t].closes + 1
     IN IF CloseAction(n, recent) = "Restart"
          THEN /\ transports' = [transports EXCEPT
                                   ![t].st = "starting",
                                   ![t].closes = IF n > MaxRestartCount
                                                   THEN MaxRestartCount ELSE n]
               /\ running' = FALSE
               /\ effects' = ListenerEffects("crashed", "starting",
                               ListenerEffects("running", "crashed", NoEffects))
          ELSE /\ transports' = [transports EXCEPT ![t].st = "crashed", ![t].closes = n]
               /\ running' = ListenerRunning("running", "crashed")
               /\ effects' = ListenerEffects("running", "crashed", NoEffects)
  /\ UNCHANGED <<procs, clientLock, client, initializedClient, emulatorConnected,
                 errorsShown>>
  /\ UNCHANGED <<cacheVars, providerVars, installer>>

\* an exit of the analysis process, counted
Crash(t) ==
  /\ ops < MaxOps
  /\ ops' = ops + 1
  /\ \E recent \in BOOLEAN : ConnectionClosed(t, recent)

\* the start() that the client called on itself settled
TransportStarted(t, ok) ==
  /\ ~MicrotaskPending
  /\ transports[t].st = "starting"
  /\ \A p \in ProcIds : ~(procs[p].pc = "launching" /\ procs[p].tr = t)
  /\ transports' = [transports EXCEPT ![t].st = StartedState("starting", ok)]
  /\ running' = ListenerRunning("starting", StartedState("starting", ok))
  /\ effects' = ListenerEffects("starting", StartedState("starting", ok), NoEffects)
  /\ UNCHANGED <<procs, clientLock, client, initializedClient, emulatorConnected,
                 errorsShown, ops>>
  /\ UNCHANGED <<cacheVars, providerVars, installer>>

LSNext ==
  \/ \E p \in ProcIds : StartClientBegin(p)
  \/ \E p \in ProcIds, status \in PortStatus : StartClientProbed(p, status)
  \/ \E p \in ProcIds, ok \in BOOLEAN : StartClientLaunch(p, ok)
  \/ \E p \in ProcIds, ok \in BOOLEAN : StartClientSettle(p, ok)
  \/ \E p \in ProcIds : StopClientBegin(p)
  \/ \E p \in ProcIds, ok \in BOOLEAN : StopClientSettle(p, ok)
  \/ Deactivate
  \/ \E p \in ProcIds, ok \in BOOLEAN : DeactivateSettle(p, ok)
  \/ WatchEmulatorTick
  \/ \E p \in ProcIds : WatchEmulatorBegin(p)
  \/ \E p \in ProcIds, status \in PortStatus : WatchEmulatorProbed(p, status)
  \/ \E p \in ProcIds : WatchEmulatorCompare(p)
  \/ \E f \in {"undefined", "true", "false"} : CallStartClient(f)
  \/ CallStopClient
  \/ \E b \in BOOLEAN : CallRestart(b)
  \/ SendRequest
  \/ \E p \in ProcIds, outcome \in {"response", "error"} : SendRequestSettle(p, outcome)
  \/ \E t \in 1..Len(transports) : Crash(t)
  \/ \E t \in 1..Len(transports), ok \in BOOLEAN : TransportStarted(t, ok)

Next == LSNext

Spec == Init /\ [][Next]_vars

----------------------------------------------------------------------------
\* Fair scheduling: a promise that can settle does settle and a continuation
\* that can run does run; the calls from outside, the watcher's timer and the
\* exits of the analysis process are not obliged to happen.

EventLoopStep ==
  \/ \E p \in ProcIds : StartClientBegin(p)
  \/ \E p \in ProcIds, status \in PortStatus : StartClientProbed(p, status)
  \/ \E p \in ProcIds, ok \in BOOLEAN : StartClientLaunch(p, ok)
  \/ \E p \in ProcIds, ok \in BOOLEAN : StartClientSettle(p, ok)
  \/ \E p \in ProcIds : StopClientBegin(p)
  \/ \E p \in ProcIds, ok \in BOOLEAN : StopClientSettle(p, ok)
  \/ \E p \in ProcIds, ok \in BOOLEAN : DeactivateSettle(p, ok)
  \/ \E p \in ProcIds : WatchEmulatorBegin(p)
  \/ \E p \in ProcIds, status \in PortStatus : WatchEmulatorProbed(p, status)
  \/ \E p \in ProcIds : WatchEmulatorCompare(p)
  \/ \E p \in ProcIds, outcome \in {"response", "error"} : SendRequestSettle(p, outcome)
  \/ \E t \in 1..Len(transports), ok \in BOOLEAN : TransportStarted(t, ok)

FairSpec == Init /\ [][Next]_vars /\ WF_vars(EventLoopStep)

----------------------------------------------------------------------------
\* The supervisor driven by its constructor and its watcher: no call of
\* startClient, stopClient or restart from outside the class.

MonitorNext ==
  \/ \E p \in ProcIds : StartClientBegin(p)
  \/ \E p \in ProcIds, status \in PortStatus : StartClientProbed(p, status)
  \/ \E p \in ProcIds, ok \in BOOLEAN : StartClientLaunch(p, ok)
  \/ \E p \in ProcIds, ok \in BOOLEAN : StartClientSettle(p, ok)
  \/ \E p \in ProcIds : StopClientBegin(p)
  \/ \E p \in ProcIds, ok \in BOOLEAN : StopClientSettle(p, ok)
  \/ Deactivate
  \/ \E p \in ProcIds, ok \in BOOLEAN : DeactivateSettle(p, ok)
  \/ WatchEmulatorTick
  \/ \E p \in ProcIds : WatchEmulatorBegin(p)
  \/ \E p \in ProcIds, status \in PortStatus : WatchEmulatorProbed(p, status)
  \/ \E p \in ProcIds : WatchEmulatorCompare(p)
  \/ SendRequest
  \/ \E p \in ProcIds, outcome \in {"response", "error"} : SendRequestSettle(p, outcome)
  \/ \E t \in 1..Len(transports) : Crash(t)
  \/ \E t \in 1..Len(transports), ok \in BOOLEAN : TransportStarted(t, ok)

MonitorSpec == Init /\ [][MonitorNext]_vars

----------------------------------------------------------------------------
\* The supervisor left to itself after construction: the constructor's
\* startClient(), the exits of the analysis process and what the client does
\* about them, and remote commands; no call of startClient, stopClient, restart
\* or deactivate from outside and no watcher run.

\* an exit of the analysis process
ProcessExits(t, recent) == ConnectionClosed(t, recent) /\ UNCHANGED ops

CrashNext ==
  \/ \E p \in ProcIds : StartClientBegin(p)
  \/ \E p \in ProcIds, status \in PortStatus : StartClientProbed(p, status)
  \/ \E p \in ProcIds, ok \in BOOLEAN : StartClientLaunch(p, ok)
  \/ \E p \in ProcIds, ok \in BOOLEAN : StartClientSettle(p, ok)
  \/ \E t \in 1..Len(transports), recent \in BOOLEAN : ProcessExits(t, recent)
  \/ \E t \in 1..Len(transports), ok \in BOOLEAN : TransportStarted(t, ok)
  \/ SendRequest
  \/ \E p \in ProcIds, outcome \in {"response", "error"} : SendRequestSettle(p, outcome)

CrashSpec == Init /\ [][CrashNext]_vars

----------------------------------------------------------------------------
\* StateCache (utils/state-cache), the reactive value cache behind
\* CliVersionsProvider: one entry, its getValue() callers and the executions
\* of its underlying computation. A computation settles with a value or fails.

Values == {"v1", "v2"}

\* faulty variant of StartsFetch: a second caller starts a computation of its own
StartsFetchAlways(e) == ~e.valid

\* getValue() begins a fetch when the entry is stale and none is outstanding
StartsFetch(e) == ~e.valid /\ ~e.fetching

\* the entry after getValue()
EntryGetValue(e) ==
  IF StartsFetch(e)
    THEN [e EXCEPT !.fetching = TRUE, !.runs = @ + 1, !.inv = 0]
    ELSE e

\* faulty variant of EntryInvalidate: nothing is recorded while a fetch is outstanding
EntryInvalidateForgets(e) ==
  [e EXCEPT !.valid = FALSE, !.inv = IF e.fetching THEN @ + 1 ELSE @]

\* the entry after invalidate(): stale, and one recomputation owed when a
\* fetch is outstanding (inv counts the calls made during the fetch, absorbed
\* those made during the fetch that settled last)
EntryInvalidate(e) ==
  [e EXCEPT !.valid = FALSE,
            !.owed = e.owed \/ e.fetching,
            !.inv = IF e.fetching THEN @ + 1 ELSE @]

\* faulty variant of EntrySettle: a failed fetch is kept as the entry's value
EntrySettleKeepsFailure(e, outcome) ==
  IF e.owed
    THEN [e EXCEPT !.value = outcome, !.owed = FALSE, !.runs = @ + 1, !.inv = 0,
                   !.absorbed = e.inv]
    ELSE [e EXCEPT !.value = outcome, !.valid = TRUE, !.fetching = FALSE,
                   !.absorbed = e.inv]

\* the entry after the outstanding fetch settled: a value is committed and the
\* entry is fresh, a failure leaves it stale; an owed recomputation starts
EntrySettle(e, outcome) ==
  LET committed == IF outcome = "error" THEN e.value ELSE outcome
  IN IF e.owed
       THEN [e EXCEPT !.value = committed, !.valid = FALSE, !.owed = FALSE,
                      !.runs = @ + 1, !.inv = 0, !.absorbed = e.inv]
       ELSE [e EXCEPT !.value = committed, !.valid = (outcome # "error"),
                      !.fetching = FALSE, !.absorbed = e.inv]

\* getValue(): the value at once when fresh, else the result of the fetch
\* that is outstanding or that this call begins
GetValue ==
  /\ Len(callers) < MaxCallers
  /\ StartsFetch(entry) => entry.runs < MaxRuns
  /\ entry' = EntryGetValue(entry)
  /\ callers' = Append(callers,
                   IF entry.valid
                     THEN [st |-> "resolved", run |-> 0, result |-> entry.value]
                     ELSE [st |-> "waiting", run |-> entry'.runs, result |-> "none"])
  /\ runResult' = IF entry'.runs > entry.runs
                     THEN Append(runResult, "pending")
                     ELSE runResult
  /\ UNCHANGED <<lsVars, providerVars, installer>>

Invalidate ==
  /\ entry.fetching => (entry.runs < MaxRuns /\ entry.inv < MaxInvalidates)
  /\ entry' = EntryInvalidate(entry)
  /\ UNCHANGED <<callers, runResult>>
  /\ UNCHANGED <<lsVars, providerVars, installer>>

\* the outstanding fetch settles: its callers get the outcome
Settle(outcome) ==
  /\ entry.fetching
  /\ entry' = EntrySettle(entry, outcome)
  /\ callers' = [i \in 1..Len(callers) |->
                   IF callers[i].st = "waiting" /\ callers[i].run = entry.runs
                     THEN [st |-> IF outcome = "error" THEN "rejected" ELSE "resolved",
                           run |-> entry.runs, result |-> outcome]
                     ELSE callers[i]]
  /\ runResult' = IF entry'.runs > entry.runs
                     THEN Append([runResult EXCEPT ![entry.runs] = outcome], "pending")
                     ELSE [runResult EXCEPT ![entry.runs] = outcome]
  /\ UNCHANGED <<lsVars, providerVars, installer>>

CacheNext ==
  \/ GetValue
  \/ Invalidate
  \/ \E outcome \in Values \cup {"error"} : Settle(outcome)

CacheSpec == Init /\ [][CacheNext]_vars

----------------------------------------------------------------------------
\* CliVersionsProvider: the resolution of one binary (#fetchBinaryInformation)

\* the binary whose version is asked for
Bin == "flow"

\* standard output of `flow version --output=json`, by example
JsonBuffers ==
  {"not json", "null", "{}", "{version: 1.2}", "{version: v0.41.2}", "{version: 1.2.3}"}

\* output of `flow version` on either stream, by example
PlainTexts == {"", "Version: v1.2.3", "Version: v1.2"}

\* execDefault rejects, or resolves with what the command wrote
JsonExecs == {"rejects"} \cup JsonBuffers

PlainExecs ==
  {[rejects |-> TRUE, stdout |-> "", stderr |-> ""]}
    \cup [rejects : {FALSE}, stdout : PlainTexts, stderr : PlainTexts]

\* JSON.parse(buffer).version, lines 86-88: "throws" for the SyntaxError of
\* JSON.parse and the TypeError of null.version
JsonVersion(buffer) ==
  CASE buffer = "not json" -> "throws"
    [] buffer = "null" -> "throws"
    [] buffer = "{}" -> "undefined"
    [] buffer = "{version: 1.2}" -> "1.2"
    [] buffer = "{version: v0.41.2}" -> "v0.41.2"
    [] buffer = "{version: 1.2.3}" -> "1.2.3"

\* semver.parse: the version, or null for what is not a semantic version
SemverParse(versionStr) ==
  CASE versionStr = "1.2.3" -> "1.2.3"
    [] versionStr = "v0.41.2" -> "0.41.2"
    [] OTHER -> "null"

\* semver.clean: the version as a string, or null
SemverClean(rawMatch) == SemverParse(rawMatch)

\* group 1 of LEGACY_VERSION_REGEXP (line 15) in the text, null without a match
LegacyMatch(text) ==
  CASE text = "Version: v1.2.3" -> "1.2.3"
    [] text = "Version: v1.2" -> "1.2"
    [] OTHER -> "null"

\* parseFlowCliVersion, lines 133-137
ParseFlowCliVersion(text) ==
  LET rawMatch == LegacyMatch(text)
  IN IF rawMatch = "null" THEN "null" ELSE SemverClean(rawMatch)

\* a CliBinary | null is the set of at most one CliBinary
Null == {}

\* cliBinaryFromVersion, lines 139-145
CliBinaryFromVersion(bin, versionStr) ==
  LET version == SemverParse(versionStr)
  IN IF version = "null" THEN Null ELSE {[command |-> bin, version |-> version]}

\* faulty variant of FetchBinaryInformationOld: error output is never looked at
FetchOldStdoutOnly(bin, plain) ==
  IF plain.rejects THEN Null
  ELSE LET versionStr == ParseFlowCliVersion(plain.stdout)
       IN IF versionStr = "null" THEN Null ELSE CliBinaryFromVersion(bin, versionStr)

\* #fetchBinaryInformationOld, lines 96-115
FetchBinaryInformationOld(bin, plain) ==
  IF plain.rejects THEN Null
  ELSE LET fromStdout == ParseFlowCliVersion(plain.stdout)
           versionStr == IF fromStdout = "null"
                           THEN ParseFlowCliVersion(plain.stderr)
                           ELSE fromStdout
       IN IF versionStr = "null" THEN Null ELSE CliBinaryFromVersion(bin, versionStr)

\* #fetchBinaryInformation, lines 77-92: the catch covers a rejected command
\* and what JSON.parse(buffer).version throws
FetchBinaryInformation(bin, json, plain) ==
  IF json = "rejects" \/ JsonVersion(json) = "throws"
    THEN FetchBinaryInformationOld(bin, plain)
    ELSE CliBinaryFromVersion(bin, JsonVersion(json))

ResolveInit ==
  /\ LSInit /\ CacheInit /\ RegistryInit(<<>>)
  /\ InstallerInit("linux", FALSE, "undefined")
  /\ tool \in [json : JsonExecs, plain : PlainExecs]
  /\ fetched = [done |-> FALSE, binary |-> {}]

\* the resolution of Bin ran to its end
Resolve ==
  /\ ~fetched.done
  /\ fetched' = [done |-> TRUE,
                 binary |-> FetchBinaryInformation(Bin, tool.json, tool.plain)]
  /\ UNCHANGED <<tool, lsVars, cacheVars, registryVars, installer>>

ResolveSpec == ResolveInit /\ [][Resolve]_vars

----------------------------------------------------------------------------
\* CliVersionsProvider: the registry of per-binary caches (#caches), the
\* aggregate (#rootCache) and the calls add, remove, refresh and getVersions.
\* The caches are StateCache objects; each step runs the promise reactions it
\* sets off to their end.

\* what a binary may answer when its cache fetches
InstalledTools ==
  {[json |-> "{version: v0.41.2}", plain |-> [rejects |-> TRUE, stdout |-> "", stderr |-> ""]],
   [json |-> "not json",
    plain |-> [rejects |-> FALSE, stdout |-> "", stderr |-> "Version: v1.2.3"]],
   [json |-> "rejects", plain |-> [rejects |-> TRUE, stdout |-> "", stderr |-> ""]]}

\* the execution counters of a cache entry are not kept for the registry
Forget(e) == [e EXCEPT !.runs = 0, !.inv = 0, !.absorbed = 0]

\* the value of a per-binary cache: the version of its CliBinary, "null" for null
VersionOf(binary) ==
  IF binary = Null THEN "null" ELSE (CHOOSE b \in binary : TRUE).version

\* faulty variant of Snapshot: reading a cache recomputes it, fresh or not
SnapshotRefetches(w, ks, cs) ==
  LET idx == {cs[ks[k]] : k \in 1..Len(ks)}
  IN [w EXCEPT
        !.leaves = [i \in 1..Len(w.leaves) |->
                      IF i \in idx
                        THEN [w.leaves[i] EXCEPT !.fetching = TRUE, !.valid = FALSE]
                        ELSE w.leaves[i]],
        !.root.awaiting = [k \in 1..Len(ks) |-> [leaf |-> cs[ks[k]], result |-> "pending"]],
        !.root.snapshot = ks,
        !.root.snap = 1 - @]

\* lines 44-48: getValue() on every registered cache, in the order of
\* Object.keys; a fresh cache answers at once, the others when their fetch ends
Snapshot(w, ks, cs) ==
  LET idx == {cs[ks[k]] : k \in 1..Len(ks)}
  IN [w EXCEPT
        !.leaves = [i \in 1..Len(w.leaves) |->
                      IF i \in idx THEN Forget(EntryGetValue(w.leaves[i])) ELSE w.leaves[i]],
        !.root.awaiting = [k \in 1..Len(ks) |->
                             [leaf |-> cs[ks[k]],
                              result |-> IF w.leaves[cs[ks[k]]].valid
                                           THEN w.leaves[cs[ks[k]]].value
                                           ELSE "pending"]],
        !.root.snapshot = ks,
        !.root.snap = 1 - @]

\* Promise.all of line 44 has every result
RootReady(root) ==
  /\ root.fetching
  /\ \A k \in 1..Len(root.awaiting) : root.awaiting[k].result # "pending"

\* lines 44-48: what the getValue() calls resolved to, in key order (a
\* CliBinary, or null written as a version "null")
Resolved(awaiting, ls) ==
  [k \in 1..Len(awaiting) |->
     [command |-> ls[awaiting[k].leaf].name, version |-> awaiting[k].result]]

\* faulty variant of Aggregate: the entries without a value are not filtered out
AggregateUnfiltered(binaries) == binaries

\* line 51: binaries.filter((bin) => bin != null)
Aggregate(binaries) == SelectSeq(binaries, LAMBDA bin : bin.version # "null")

\* the fetch of the root cache ends: the list is committed and handed to the
\* getVersions callers waiting for it
RootSettle(w) ==
  LET binaries == Resolved(w.root.awaiting, w.leaves)
      list     == Aggregate(binaries)
  IN [w EXCEPT
        !.root = [Forget(EntrySettle(w.root, "list")) EXCEPT
                    !.list = list, !.resolved = binaries,
                    !.awaiting = <<>>, !.waiting = 0],
        !.returned = IF w.root.waiting > 0
                       THEN <<[list |-> list, resolved |-> binaries]>>
                       ELSE w.returned]

\* the reactions that follow a step: the root fetch ends when it has every
\* result, and the recomputation it owes begins (and may end) at once
Quiesce(w, ks, cs) ==
  IF ~RootReady(w.root) THEN w
  ELSE LET w1 == RootSettle(w)
       IN IF ~w1.root.fetching THEN w1
          ELSE LET w2 == Snapshot(w1, ks, cs)
               IN IF RootReady(w2.root) THEN RootSettle(w2) ELSE w2

\* the caches and the aggregate as one value
World == [leaves |-> leaves, root |-> rootCache, returned |-> <<>>]

\* the executions begun in a step: one of the root fetcher for a snapshot
\* taken, one of a per-binary fetcher for a cache that begins a fetch, or
\* that settles (settled: its index, else 0) owing a recomputation; a call
\* from outside (op other than "settle") starts the count again. quiet: the
\* call was add, remove or refresh with no fetch outstanding, or the
\* getVersions that came next
Recomputed(op, settled) ==
  LET before(k) == IF op = "settle" /\ k <= Len(recomputed.leaf)
                     THEN recomputed.leaf[k] ELSE 0
      begins(k) == IF k > Len(leaves) THEN FALSE
                   ELSE \/ ~leaves[k].fetching /\ leaves'[k].fetching
                        \/ k = settled /\ leaves[k].owed
  IN [op   |-> IF op = "settle" THEN recomputed.op ELSE op,
      quiet |-> IF op = "settle" THEN recomputed.quiet
                ELSE IF op = "getVersions"
                  THEN recomputed.quiet /\ recomputed.op # "getVersions"
                ELSE ~rootCache.fetching
                       /\ \A k \in 1..Len(leaves) : ~leaves[k].fetching,
      root |-> (IF op = "settle" THEN recomputed.root ELSE 0)
                 + (IF rootCache'.snap # rootCache.snap THEN 1 ELSE 0),
      leaf |-> [k \in 1..Len(leaves') |-> before(k) + (IF begins(k) THEN 1 ELSE 0)]]

\* faulty variant of AlreadyRegistered: add() without the check of line 56
AlreadyRegisteredNever(command) == FALSE

\* line 56: this.#caches[command] != null
AlreadyRegistered(command) == caches[command] # 0

\* add, lines 55-62
Add(command) ==
  /\ calls < MaxCalls
  /\ calls' = calls + 1
  /\ call' = [op |-> "add", name |-> command, returned |-> <<>>]
  /\ IF AlreadyRegistered(command)
       THEN UNCHANGED <<keys, caches, leaves, rootCache>>
       ELSE /\ leaves' = Append(leaves, NewLeaf(command))
            /\ caches' = [caches EXCEPT ![command] = Len(leaves) + 1]
            /\ keys' = IF caches[command] = 0
                         THEN Append(keys, command) ELSE keys
            /\ rootCache' = Forget(EntryInvalidate(rootCache))
  /\ recomputed' = Recomputed("add", 0)
  /\ UNCHANGED <<lsVars, cacheVars, tool, fetched, installer>>

\* faulty variant of Removable: a known command is removed like any other
RemovableIfRegistered(command) == caches[command] # 0

\* line 66: registered and not one of KNOWN_FLOW_COMMANDS
Removable(command) == caches[command] # 0 /\ command \notin KnownFlowCommands

\* remove, lines 64-70
Remove(command) ==
  /\ calls < MaxCalls
  /\ calls' = calls + 1
  /\ call' = [op |-> "remove", name |-> command, returned |-> <<>>]
  /\ IF Removable(command)
       THEN /\ caches' = [caches EXCEPT ![command] = 0]
            /\ keys' = SelectSeq(keys, LAMBDA k : k # command)
            /\ rootCache' = Forget(EntryInvalidate(rootCache))
            /\ UNCHANGED leaves
       ELSE UNCHANGED <<keys, caches, leaves, rootCache>>
  /\ recomputed' = Recomputed("remove", 0)
  /\ UNCHANGED <<lsVars, cacheVars, tool, fetched, installer>>

\* refresh, lines 117-122
Refresh ==
  /\ calls < MaxCalls
  /\ calls' = calls + 1
  /\ call' = [op |-> "refresh", name |-> "", returned |-> <<>>]
  /\ leaves' = [i \in 1..Len(leaves) |->
                  IF \E c \in Commands : caches[c] = i
                    THEN Forget(EntryInvalidate(leaves[i])) ELSE leaves[i]]
  /\ rootCache' = Forget(EntryInvalidate(rootCache))
  /\ UNCHANGED <<keys, caches>>
  /\ recomputed' = Recomputed("refresh", 0)
  /\ UNCHANGED <<lsVars, cacheVars, tool, fetched, installer>>

\* getVersions, lines 124-126: getValue() on the root cache
GetVersions ==
  /\ calls < MaxCalls
  /\ calls' = calls + 1
  /\ IF rootCache.valid
       THEN /\ call' = [op |-> "getVersions", name |-> "",
                         returned |-> <<[list |-> rootCache.list,
                                         resolved |-> rootCache.resolved]>>]
            /\ UNCHANGED <<leaves, rootCache>>
       ELSE LET asked == [World EXCEPT !.root.waiting = @ + 1]
                begun == IF rootCache.fetching THEN asked
                         ELSE Snapshot([asked EXCEPT
                                          !.root = Forget(EntryGetValue(asked.root))],
                                       keys, caches)
                w     == Quiesce(begun, keys, caches)
            IN /\ leaves' = w.leaves
               /\ rootCache' = w.root
               /\ call' = [op |-> "getVersions", name |-> "", returned |-> w.returned]
  /\ recomputed' = Recomputed("getVersions", 0)
  /\ UNCHANGED <<keys, caches>>
  /\ UNCHANGED <<lsVars, cacheVars, tool, fetched, installer>>

\* the fetch of per-binary cache i ends with what the binary answered: the
\* value is committed, the subscription of line 58 invalidates the root cache,
\* the root's getValue() of line 46 gets the value
LeafSettle(i, answer) ==
  /\ leaves[i].fetching
  /\ LET outcome == VersionOf(FetchBinaryInformation(leaves[i].name,
                                                     answer.json, answer.plain))
         settled == [World EXCEPT
                       !.leaves[i] = Forget(EntrySettle(leaves[i], outcome)),
                       !.root = IF leaves[i].subs > 0
                                  THEN Forget(EntryInvalidate(rootCache)) ELSE rootCache]
         told    == [settled EXCEPT
                       !.root.awaiting =
                          [k \in 1..Len(rootCache.awaiting) |->
                             IF rootCache.awaiting[k].leaf = i
                                  /\ rootCache.awaiting[k].result = "pending"
                               THEN [leaf |-> i, result |-> outcome]
                               ELSE rootCache.awaiting[k]]]
         w       == Quiesce(told, keys, caches)
     IN /\ leaves' = w.leaves
        /\ rootCache' = w.root
        /\ call' = [op |-> "settle", name |-> leaves[i].name, returned |-> w.returned]
  /\ recomputed' = Recomputed("settle", i)
  /\ UNCHANGED <<keys, caches, calls>>
  /\ UNCHANGED <<lsVars, cacheVars, tool, fetched, installer>>

ProviderNext ==
  \/ \E c \in Commands : Add(c)
  \/ \E c \in Commands : Remove(c)
  \/ Refresh
  \/ GetVersions
  \/ \E i \in 1..Len(leaves), answer \in InstalledTools : LeafSettle(i, answer)

ProviderSpec == ProviderInit /\ [][ProviderNext]_vars

----------------------------------------------------------------------------
\* InstallFlowCLI.install: the language server API, the shell and the
\* terminal are collaborators; what their calls settle with is an input.

Platforms == {"darwin", "win32", "linux"}

\* line 50: this.#context.languageServerApi.isActive ?? false
IsActive(isActive) == isActive = "true"

\* the installer after one more call or settlement
Logged(i, event) == [i EXCEPT !.log = Append(@, event)]

\* lines 54-65: the try block is entered and the installer of the platform
\* called, up to its first await: #install_macos goes to the terminal (74),
\* the others try the shell first when there is a GitHub token (79, 85)
BeginInstallStep(i) ==
  IF i.platform # "darwin" /\ i.githubToken
    THEN [Logged(i, "install step begins") EXCEPT !.pc = "tryExec"]
    ELSE [Logged(i, "install step begins") EXCEPT !.pc = "terminal"]

\* faulty variant of AfterInstallStep: without the try/catch of lines 54-68
\* the failure leaves install()
AfterInstallStepPropagates(i, failed) ==
  IF failed
    THEN [Logged(i, "install step fails") EXCEPT !.pc = "rejected"]
    ELSE IF i.active
      THEN [Logged(Logged(i, "install step ends"), "activate()") EXCEPT
              !.pc = "activating"]
      ELSE [Logged(i, "install step ends") EXCEPT !.pc = "fulfilled"]

\* lines 66-69: the platform installer returned or threw (failed); the catch
\* shows the error; activate() is called when isActive was true
AfterInstallStep(i, failed) ==
  LET ended == IF failed
                 THEN Logged(Logged(i, "install step fails"), "showErrorMessage")
                 ELSE Logged(i, "install step ends")
  IN IF i.active
       THEN [Logged(ended, "activate()") EXCEPT !.pc = "activating"]
       ELSE [ended EXCEPT !.pc = "fulfilled"]

\* lines 49-52: install() is called
Install ==
  /\ installer.pc = "idle"
  /\ LET i == [installer EXCEPT !.active = IsActive(installer.isActive)]
     IN installer' = IF i.active
                       THEN [Logged(i, "deactivate()") EXCEPT !.pc = "deactivating"]
                       ELSE BeginInstallStep(i)
  /\ UNCHANGED <<lsVars, cacheVars, providerVars>>

\* line 51: deactivate() settled; its rejection leaves install()
InstallDeactivated(ok) ==
  /\ installer.pc = "deactivating"
  /\ installer' =
       IF ok THEN BeginInstallStep(Logged(installer, "deactivate() resolved"))
       ELSE [Logged(installer, "deactivate() rejected") EXCEPT !.pc = "rejected"]
  /\ UNCHANGED <<lsVars, cacheVars, providerVars>>

\* lines 79 and 85: tryExecPowerShell or tryExecUnixDefault settled: true ends
\* the installation, false goes on to the terminal
InstallTriedShell(outcome) ==
  /\ installer.pc = "tryExec"
  /\ installer' =
       IF outcome = "true" THEN AfterInstallStep(installer, FALSE)
       ELSE IF outcome = "false" THEN [installer EXCEPT !.pc = "terminal"]
       ELSE AfterInstallStep(installer, TRUE)
  /\ UNCHANGED <<lsVars, cacheVars, providerVars>>

\* lines 74, 80 and 86: execVscodeTerminal settled
InstallRanTerminal(ok) ==
  /\ installer.pc = "terminal"
  /\ installer' = AfterInstallStep(installer, ~ok)
  /\ UNCHANGED <<lsVars, cacheVars, providerVars>>

\* line 69: activate() settled
InstallActivated(ok) ==
  /\ installer.pc = "activating"
  /\ installer' =
       IF ok THEN [Logged(installer, "activate() resolved") EXCEPT !.pc = "fulfilled"]
       ELSE [Logged(installer, "activate() rejected") EXCEPT !.pc = "rejected"]
  /\ UNCHANGED <<lsVars, cacheVars, providerVars>>

InstallInit ==
  /\ LSInit /\ CacheInit /\ ToolInit /\ RegistryInit(<<>>)
  /\ \E platform \in Platforms, githubToken \in BOOLEAN,
        isActive \in {"true", "false", "undefined"} :
       InstallerInit(platform, githubToken, isActive)

InstallNext ==
  \/ Install
  \/ \E ok \in BOOLEAN : InstallDeactivated(ok)
  \/ \E outcome \in {"true", "false", "rejects"} : InstallTriedShell(outcome)
  \/ \E ok \in BOOLEAN : InstallRanTerminal(ok)
  \/ \E ok \in BOOLEAN : InstallActivated(ok)

InstallSpec == InstallInit /\ [][InstallNext]_vars

----------------------------------------------------------------------------
\* Properties of the supervisor

\* a spawned analysis process that has not been asked to stop
ActiveTransports ==
  {t \in 1..Len(transports) : transports[t].st \in {"starting", "running"}}

\* C1: at every instant at most one spawned transport is active, for every
\* interleaving of startClient and stopClient calls.
AtMostOneActiveTransport == Cardinality(ActiveTransports) <= 1

\* C2: the lock is never held by a startClient that has already ended, whether
\* it ended by returning or by an exception.
LockReleasedWhenStartEnded ==
  \A p \in ProcIds : procs[p].pc = "threw" => clientLock.holder # p

\* C3: a tick whose probe result differs from the recorded connectivity state
\* records it and calls restart exactly once, with the probe result as flag; a
\* tick whose probe result equals the recorded state calls nothing and changes
\* nothing but the lock it gives back.
TickRestartsOnTransitionOnly ==
  [][\A p \in ProcIds :
       (procs[p].kind = "tick" /\ procs[p].pc = "compare" /\ procs' # procs) =>
         LET emulatorFound == procs[p].flag = "true"
             ended == [procs EXCEPT ![p] = DoneProc]
         IN IF emulatorFound # emulatorConnected
              THEN /\ emulatorConnected' = emulatorFound
                   /\ procs' = ended \o
                        <<NewProc("stop", "restart", "undefined"),
                          NewProc("start", "restart", BoolStr(emulatorFound))>>
              ELSE /\ procs' = ended
                   /\ UNCHANGED <<client, transports, running, initializedClient,
                                  emulatorConnected, errorsShown>>]_vars

\* C3 (witness): a tick has seen a transition while another tick waits for the lock
TickSeesTransitionWhileTickQueued ==
  \E p \in ProcIds :
    /\ procs[p].kind = "tick" /\ procs[p].pc = "compare"
    /\ (procs[p].flag = "true") # emulatorConnected
    /\ \E i \in 1..Len(clientLock.queue) : procs[clientLock.queue[i]].kind = "tick"

\* an invocation inside the spawn of a transport or the shutdown of one
InSpawnOrTeardown(p) ==
  \/ procs[p].kind = "start" /\ procs[p].pc = "launching"
  \/ procs[p].kind \in {"stop", "deactivate"} /\ procs[p].pc = "stopping"

\* C4: no two spawn or teardown sequences (startClient, stopClient, deactivate)
\* are in progress at the same time.
NoConcurrentSpawnOrTeardown ==
  Cardinality({p \in ProcIds : InSpawnOrTeardown(p)}) <= 1

\* the stop half of a restart, holding the lock
RestartStopHolds(p) ==
  /\ procs[p].kind = "stop" /\ procs[p].origin = "restart"
  /\ clientLock.holder = p

LaunchFailureStopsWithoutRetry ==
  [][/\ \A p \in ProcIds :
          (/\ procs[p].kind = "start" /\ procs[p].pc = "launching"
           /\ procs'[p] = DoneProc
           /\ transports'[procs[p].tr].st = "failed") =>
            /\ errorsShown' = errorsShown + 1
            /\ running' = FALSE
            /\ client' = procs[p].tr
            /\ PublicState(transports'[client'].st) = "Stopped"
            /\ Len(procs') = Len(procs)
            /\ Len(transports') = Len(transports)
     /\ Len(transports') > Len(transports) =>
          \E p \in ProcIds :
            /\ procs[p].kind = "start" /\ procs[p].pc = "config"
            /\ procs[p].origin \in {"constructor", "call", "restart"}
            /\ clientLock.holder = p
            /\ procs'[p].pc = "launching"]_vars

\* C9 (witness): a startClient has ended with its launch failed
LaunchHasFailed ==
  /\ client # 0 /\ transports[client].st = "failed"
  /\ errorsShown > 0
  /\ clientLock.holder = 0

\* C10: the transport is launched with the flag startClient was given; a
\* startClient without a flag takes the probe result, under the lock, as its
\* flag and as the recorded connectivity state.
LaunchFlagIsGivenOrProbed ==
  [][\A p \in ProcIds :
       procs[p].kind = "start" =>
         /\ (procs[p].pc = "probing" /\ procs'[p].pc = "config") =>
              /\ clientLock.holder = p
              /\ procs[p].flag = "undefined"
              /\ procs'[p].flag = BoolStr(emulatorConnected')
         /\ (procs[p].pc = "config" /\ procs'[p].pc = "launching") =>
              /\ procs[p].flag \in {"true", "false"}
              /\ client' = procs'[p].tr
              /\ transports'[client'].arg = procs[p].flag
         /\ (procs[p].flag # "undefined" /\ procs'[p] # DoneProc) =>
              procs'[p].flag = procs[p].flag]_vars

\* C10 (witness): a transport launched with a given flag that differs from the
\* recorded connectivity state, after a probed launch
LaunchedWithGivenFlag ==
  \E p \in ProcIds :
    /\ procs[p].kind = "start" /\ procs[p].pc = "launching"
    /\ procs[p].origin = "call"
    /\ transports[procs[p].tr].arg = procs[p].flag
    /\ procs[p].flag # BoolStr(emulatorConnected)
    /\ Len(transports) = 2

\* C11: every stopClient that holds the lock ends, in one step, with
\* this.client null, the observers notified once and the lock handed on,
\* whether client.stop() resolved, rejected or there was no client; it never
\* ends with an exception.
StopClientEndsCleared ==
  [][\A p \in ProcIds :
       (/\ procs[p].kind = "stop" /\ clientLock.holder = p
        /\ procs'[p] # procs[p] /\ procs'[p].pc # "stopping") =>
         /\ procs'[p] = DoneProc
         /\ client' = 0
         /\ effects'.notified = 1
         /\ clientLock' = Release(clientLock)]_vars

\* C11 (witness): a stopClient has ended after client.stop() rejected: the
\* transport is still shutting down, the handle is null, the observers were
\* notified and a waiting operation has the lock
StopFailedHandleCleared ==
  /\ client = 0 /\ effects.notified = 1
  /\ \E t \in 1..Len(transports) : transports[t].st = "stopping"
  /\ \A p \in ProcIds : procs[p].pc # "stopping"
  /\ clientLock.holder # 0

\* a step that calls sendRequest or in which a request settles
SendRequestStep ==
  \/ effects'.result # "none"
  \/ Len(procs') > Len(procs) /\ procs'[Len(procs')].kind = "request"

\* C12: sendRequest takes no part in the client lock and writes nothing of the
\* supervisor: a step that calls it or settles it leaves the lock, the handle,
\* the running flag, the connectivity state and the transports as they were;
\* it returns undefined exactly when this.client is null at the call, and
\* otherwise sends the request to the client of that moment.
SendRequestBypassesLock ==
  [][SendRequestStep =>
       /\ UNCHANGED <<clientLock, client, running, emulatorConnected, transports,
                      initializedClient>>
       /\ effects'.result = "undefined" => (client = 0 /\ procs' = procs)
       /\ Len(procs') > Len(procs) =>
            (client # 0 /\ procs'[Len(procs')].tr = client /\ effects'.result = "none")]_vars

\* C12 (witness): a request has returned the server's response while a
\* startClient holds the lock
ResponseWhileStartHoldsLock ==
  /\ effects.result = "response"
  /\ clientLock.holder # 0
  /\ procs[clientLock.holder].kind = "start"
  /\ procs[clientLock.holder].pc \in {"probing", "config", "launching"}

\* C13: a tick whose probe settled, with a status or with an error, goes on to
\* the comparison with a boolean (a failed probe counts as false); the
\* comparison ends the tick on both paths with the lock given back, and the
\* stopClient and startClient of restart ask for the lock after the tick has
\* released it.
TickReleasesLockOnBothPaths ==
  [][/\ EmulatorExists("error") = FALSE
     /\ \A p \in ProcIds :
          procs[p].kind = "tick" =>
            /\ (procs[p].pc = "probing" /\ procs'[p] # procs[p]) =>
                 /\ procs'[p].pc = "compare"
                 /\ procs'[p].flag \in {"true", "false"}
                 /\ clientLock' = clientLock
            /\ (procs[p].pc = "compare" /\ procs'[p] # procs[p]) =>
                 /\ clientLock.holder = p
                 /\ procs'[p] = DoneProc
                 /\ clientLock' =
                      IF Len(procs') > Len(procs)
                        THEN Acquire(Acquire(Release(clientLock), Len(procs) + 1),
                                     Len(procs) + 2)
                        ELSE Release(clientLock)]_vars

\* C13 (witness): the first tick found the emulator gone, gave the lock back
\* and called restart(false), whose stopClient now has the lock
TickReleasedThenRestarted ==
  /\ ops = 1 /\ Len(procs) = 4
  /\ procs[2] = DoneProc
  /\ procs[3] = NewProc("stop", "restart", "undefined")
  /\ procs[4] = NewProc("start", "restart", "false")
  /\ clientLock = [holder |-> 3, queue |-> <<4>>]
  /\ ~emulatorConnected

\* C14 (as amended): the recorded connectivity state changes only in a step of
\* the operation that holds the lock, and that operation is a tick whose probe
\* differs from it or a startClient called without a flag, which records its
\* own probe; every other step (a startClient with a flag, stopClient, the
\* calls of restart, sendRequest, deactivate and the transport's events) leaves
\* it unchanged.
ConnectivityWrittenUnderLockByProbes ==
  [][emulatorConnected' # emulatorConnected =>
       \E p \in ProcIds :
         /\ clientLock.holder = p
         /\ procs'[p] # procs[p]
         /\ \/ /\ procs[p].kind = "tick" /\ procs[p].pc = "compare"
               /\ emulatorConnected' = (procs[p].flag = "true")
            \/ /\ procs[p].kind = "start" /\ procs[p].pc = "probing"
               /\ procs[p].flag = "undefined"
               /\ procs'[p].flag = BoolStr(emulatorConnected')]_vars

\* C14 (witness): the constructor's startClient() has recorded the emulator as
\* reachable before any tick has run
StartRecordedConnectivity ==
  /\ ops = 0
  /\ emulatorConnected
  /\ procs[1].kind = "start" /\ procs[1].pc = "config" /\ procs[1].flag = "true"

\* C14 (as claimed): the recorded connectivity state is modified only by
\* monitor ticks.
ConnectivityWrittenByTicksOnly ==
  [][emulatorConnected' # emulatorConnected =>
       \E p \in ProcIds :
         /\ procs[p].kind = "tick" /\ procs[p].pc = "compare"
         /\ procs'[p] = DoneProc]_vars

\* C15: when an initialized client whose shutdown was not asked for reports
\* that it is no longer running, the delay is applied and the client is
\* Starting again at the end of that same task, with no call of startClient or
\* restart and no watcher run. (The client reports Stopped and, when it
\* restarts itself, Starting within one task; a client left stopped is started
\* again by nothing but a call or a watcher run.)
CrashReentersStarting ==
  [][\A t \in 1..Len(transports) :
       (/\ initializedClient
        /\ transports[t].st = "running"
        /\ transports'[t].st \notin {"running", "stopping"}) =>
         /\ transports'[t].st = "starting"
         /\ effects'.slept >= 1
         /\ Len(procs') = Len(procs)]_vars

\* C20: this.client and this.running change only in a step of the operation
\* that holds the client lock.
HandleAndRunningWrittenUnderLock ==
  [][(client' # client \/ running' # running) =>
       \E p \in ProcIds :
         /\ clientLock.holder = p
         /\ procs[p].kind \in {"start", "stop"}
         /\ procs'[p] # procs[p]]_vars

\* the state changes that transport t reports to the listener in a step, in
\* order: the public states it enters (a client that restarts itself after an
\* exit reports Stopped, then Starting)
StateChangeEvents(t) ==
  LET old == IF t <= Len(transports) THEN transports[t].st ELSE "initial"
      new == transports'[t].st
  IN IF old = "running" /\ new = "starting" THEN <<"Stopped", "Starting">>
     ELSE IF PublicState(old) # PublicState(new) THEN <<PublicState(new)>>
     ELSE <<>>

\* a startClient has reached the end of its launch step (line 132) and no
\* later one is between line 86 and line 132
CompletedInitialization ==
  /\ \E t \in 1..Len(transports) :
       \A p \in ProcIds : ~(procs[p].pc = "launching" /\ procs[p].tr = t)
  /\ \A p \in ProcIds :
       procs[p].kind = "start" => procs[p].pc \notin {"config", "launching", "threw"}

\* what the claim expects of the listener for one event
ExpectedOfListener(newState) ==
  <<IF newState = "Running" THEN "running = true" ELSE "running = false">>
  \o (IF CompletedInitialization /\ newState # "Running"
        THEN <<"sleepSynchronously">> ELSE <<>>)
  \o <<"emulatorStateChanged">>

TickRequested(p) == IF p \in ProcIds THEN procs[p].kind = "tick" ELSE FALSE

\* invocation p has returned and does not hold the lock
TickReturned(p) ==
  IF p \in ProcIds THEN procs[p].kind = "done" /\ clientLock.holder # p ELSE FALSE

\* C22: under fair scheduling every run of the watcher callback that has
\* asked for the client lock gets it and returns, the lock released: no run
\* waits for the lock for ever, whatever calls of startClient, stopClient and
\* restart, launch outcomes and earlier runs came before.
TickAcquiresAndReleases ==
  \A p \in 1..(1 + 3 * MaxOps) : TickRequested(p) ~> TickReturned(p)

\* the lock is free and no startClient, stopClient or watcher run is under
\* way or waiting for it
Quiescent ==
  /\ clientLock.holder = 0
  /\ \A p \in ProcIds : procs[p].kind \notin {"start", "stop", "tick"}

\* C23: with startClient and restart called by the constructor and the
\* watcher only, every quiescent state has a client, the last one launched,
\* and its --enable-flow-client argument is the recorded connectivity state;
\* the startClient of a restart holds the lock only after the stopClient of
\* that restart has returned.
QuiescentClientMatchesConnectivity ==
  /\ Quiescent =>
       /\ client # 0
       /\ client = Len(transports)
       /\ transports[client].arg = BoolStr(emulatorConnected)
  /\ \A p \in ProcIds :
       (procs[p].kind = "start" /\ procs[p].origin = "restart"
          /\ clientLock.holder = p) =>
         /\ p > 1
         /\ procs[p - 1].kind = "done"

\* C23 (witness): two watcher runs saw the emulator come and go; after the
\* two restarts the third client, launched with false, is the handle
TwoRestartsSettled ==
  /\ Quiescent
  /\ Len(transports) = 3
  /\ client = 3
  /\ transports[2].arg = "true"
  /\ transports[3].arg = "false"
  /\ ~emulatorConnected

----------------------------------------------------------------------------
\* Properties of the installer

\* where install() made a call or saw it settle (0: it has not)
Position(event) ==
  IF \E k \in 1..Len(installer.log) : installer.log[k] = event
    THEN CHOOSE k \in 1..Len(installer.log) : installer.log[k] = event
    ELSE 0

Occurrences(event) ==
  Cardinality({k \in 1..Len(installer.log) : installer.log[k] = event})

\* where the platform install step ended, with or without a failure
InstallStepEnded ==
  IF Position("install step ends") > 0 THEN Position("install step ends")
  ELSE Position("install step fails")

\* C25: when the language server was active as install() began, deactivate()
\* has resolved before the platform install step begins and activate() is
\* called after the step has ended, also when the step failed; a failed step
\* is reported with an error message and does not make install() reject; when
\* the language server was not active install() calls neither deactivate()
\* nor activate(). Each of them is called at most once.
InstallBracketsLanguageServer ==
  /\ \A e \in {"deactivate()", "activate()", "install step begins"} : Occurrences(e) <= 1
  /\ (installer.isActive = "true" /\ installer.pc # "idle") =>
       /\ Position("deactivate()") = 1
       /\ Position("install step begins") > 0 =>
            /\ Position("deactivate() resolved") > 0
            /\ Position("deactivate() resolved") < Position("install step begins")
       /\ InstallStepEnded > 0 => Position("activate()") > InstallStepEnded
       /\ installer.pc = "fulfilled" => Position("activate() resolved") > 0
  /\ installer.isActive # "true" =>
       /\ Occurrences("deactivate()") = 0
       /\ Occurrences("activate()") = 0
       /\ installer.pc # "rejected"
  /\ Position("activate()") > 0 => InstallStepEnded > 0
  /\ Position("install step fails") > 0 =>
       Position("showErrorMessage") = Position("install step fails") + 1
  /\ installer.pc = "rejected" =>
       \/ Position("deactivate() rejected") > 0
       \/ Position("activate() rejected") > 0
  /\ installer.pc = "fulfilled" => InstallStepEnded > 0

\* C25 (witness): the language server was active and the installation on
\* the terminal failed; the error was shown and the server activated again
FailedInstallReactivated ==
  /\ installer.pc = "fulfilled"
  /\ installer.log = <<"deactivate()", "deactivate() resolved", "install step begins",
                       "install step fails", "showErrorMessage",
                       "activate()", "activate() resolved">>

----------------------------------------------------------------------------
\* Properties of the resolution of a binary

\* the semantic version each source holds, "null" when it holds none
JsonSource ==
  IF tool.json = "rejects" \/ JsonVersion(tool.json) = "throws"
    THEN "null"
    ELSE SemverParse(JsonVersion(tool.json))

StdoutSource ==
  IF tool.plain.rejects THEN "null" ELSE ParseFlowCliVersion(tool.plain.stdout)

StderrSource ==
  IF tool.plain.rejects THEN "null" ELSE ParseFlowCliVersion(tool.plain.stderr)

\* the CliBinary of Bin for a version, null for none
AsBinary(version) ==
  IF version = "null" THEN Null ELSE {[command |-> Bin, version |-> version]}

\* the structured query ran and its output parsed to a document with fields
StructuredAnswered == tool.json # "rejects" /\ JsonVersion(tool.json) # "throws"

\* C19 (as amended): resolution ends with a CliBinary or with null, never with
\* an error. When the structured query ran and its output parsed, the result
\* is decided by the version field alone: its CliBinary, or null when it is no
\* semantic version, and the plain-text query is not tried. Otherwise (the
\* command failed or its output did not parse) the plain-text query decides:
\* the version in standard output, else the one in error output, else null.
ResolutionFallsBackOnFailureOnly ==
  fetched.done =>
    /\ Cardinality(fetched.binary) <= 1
    /\ fetched.binary =
         IF StructuredAnswered THEN AsBinary(JsonSource)
         ELSE IF StdoutSource # "null" THEN AsBinary(StdoutSource)
         ELSE AsBinary(StderrSource)

\* C19 (witness): the structured output did not parse, standard output holds
\* no version and the binary was resolved from error output
ResolvedFromErrorOutput ==
  /\ fetched.done
  /\ tool.json = "not json"
  /\ ~tool.plain.rejects /\ tool.plain.stdout = "" /\ tool.plain.stderr = "Version: v1.2.3"
  /\ fetched.binary = {[command |-> "flow", version |-> "1.2.3"]}

\* C19 (as claimed): resolution yields the CliBinary of the first source, in
\* the order structured output, standard output, error output, that holds a
\* valid semantic version, and null if none does.
ResolutionTakesFirstValidSource ==
  fetched.done =>
    fetched.binary =
      IF JsonSource # "null" THEN AsBinary(JsonSource)
      ELSE IF StdoutSource # "null" THEN AsBinary(StdoutSource)
      ELSE AsBinary(StderrSource)

----------------------------------------------------------------------------
\* Properties of the registry and its aggregate

\* the names registered now
Registered == {c \in Commands : caches[c] # 0}

\* the cache registered for a name
LeafOf(c) == leaves[caches[c]]

\* how many entries of a list belong to a name
Count(list, c) == Cardinality({k \in 1..Len(list) : list[k].command = c})

\* the entries of a list of resolutions that hold no value
Nulls(binaries) == {k \in 1..Len(binaries) : binaries[k].version = "null"}

\* C16: a list that getVersions returns holds exactly one CliBinary for each
\* name of the aggregation whose resolution yielded a version, and nothing
\* for a name whose resolution yielded none: each of those makes the list one
\* entry shorter; getVersions returns a list, never an error. While the
\* aggregate is fresh, the names of its aggregation are the registered names
\* and the resolutions are the values of their caches.
AggregateHoldsResolvedBinaries ==
  /\ \A r \in 1..Len(call.returned) :
       LET list     == call.returned[r].list
           binaries == call.returned[r].resolved
       IN /\ \A c \in Commands :
               /\ Count(binaries, c) <= 1
               /\ Count(list, c) =
                    IF \E k \in 1..Len(binaries) :
                         binaries[k].command = c /\ binaries[k].version # "null"
                      THEN 1 ELSE 0
          /\ \A k \in 1..Len(list) :
               \E m \in 1..Len(binaries) : list[k] = binaries[m]
          /\ Len(list) = Len(binaries) - Cardinality(Nulls(binaries))
  /\ rootCache.valid =>
       /\ rootCache.list = Aggregate(rootCache.resolved)
       /\ Len(rootCache.resolved) = Len(keys)
       /\ \A k \in 1..Len(keys) :
            /\ rootCache.resolved[k].command = keys[k]
            /\ rootCache.resolved[k].version = LeafOf(keys[k]).value
            /\ LeafOf(keys[k]).valid

\* C16 (witness): getVersions has returned the fresh aggregate of two
\* registered names, one resolved and one whose resolution yielded no value
OneOfTwoResolved ==
  /\ rootCache.valid
  /\ keys = <<"flow", "flow-next">>
  /\ LeafOf("flow").value = "0.41.2"
  /\ LeafOf("flow-next").value = "null"
  /\ Len(call.returned) = 1
  /\ call.returned[1].list = <<[command |-> "flow", version |-> "0.41.2"]>>

\* the per-binary caches that hold the command of a name
LeavesOf(c) == {i \in 1..Len(leaves) : leaves[i].name = c}

AddIsIdempotent ==
  [][ (call'.op = "add" /\ calls' # calls) =>
        IF call'.name \in Registered
          THEN UNCHANGED <<keys, caches, leaves, rootCache>>
          ELSE /\ Len(leaves') = Len(leaves) + 1
               /\ caches'[call'.name] = Len(leaves')
               /\ keys' = Append(keys, call'.name)
               /\ ~rootCache'.valid
    ]_vars

\* C18 (witness): "flow-next" was added and aggregated; a second add of it
\* left the two caches and the fresh aggregate as they were
SecondAddLeftAggregateFresh ==
  /\ call.op = "add"
  /\ call.name = "flow-next"
  /\ calls >= 3
  /\ keys = <<"flow", "flow-next">>
  /\ Len(leaves) = 2
  /\ rootCache.valid
  /\ Len(rootCache.list) = 2

\* no fetcher is executing, of the aggregate or of any per-binary cache
NoFetchOutstanding ==
  /\ ~rootCache.fetching
  /\ \A i \in 1..Len(leaves) : ~leaves[i].fetching

\* the aggregate and every registered cache are fresh and owe nothing
AllFresh ==
  /\ rootCache.valid /\ ~rootCache.owed
  /\ \A c \in Registered : LeafOf(c).valid /\ ~LeafOf(c).owed

\* the versions the registered caches hold, in registration order, without
\* the caches that hold no value
CurrentVersions ==
  SelectSeq([k \in 1..Len(keys) |->
               [command |-> keys[k], version |-> LeafOf(keys[k]).value]],
            LAMBDA b : b.version # "null")

\* after add, remove or refresh with the caches at rest and then getVersions:
\* the executions begun since the getVersions() call stay within two of the
\* root fetcher and one of each per-binary fetcher; once none is outstanding
\* everything is fresh and the list is that of the current versions
RecomputationIsBounded ==
  (recomputed.op = "getVersions" /\ recomputed.quiet) =>
    /\ recomputed.root <= 2
    /\ \A k \in 1..Len(recomputed.leaf) : recomputed.leaf[k] <= 1
    /\ rootCache.fetching =>
         \E k \in 1..Len(rootCache.awaiting) :
           /\ rootCache.awaiting[k].result = "pending"
           /\ leaves[rootCache.awaiting[k].leaf].fetching
    /\ NoFetchOutstanding =>
         /\ AllFresh
         /\ rootCache.list = CurrentVersions

\* the work that is left: the executions outstanding and owed, those of the
\* per-binary fetchers weighing more than their invalidation of the root
WorkLeft ==
  3 * Cardinality({i \in 1..Len(leaves) : leaves[i].fetching})
  + 3 * Cardinality({i \in 1..Len(leaves) : leaves[i].owed})
  + (IF rootCache.fetching THEN 1 ELSE 0)
  + (IF rootCache.owed THEN 1 ELSE 0)

----------------------------------------------------------------------------
\* Properties of the cache entry

\* C5: the getValue() calls made on a stale entry share one execution of the
\* computation: a call begins an execution only when none is outstanding, all
\* the calls that wait are waiting for the one outstanding execution, and
\* every call that resolved has the result of the execution it waited for.
ConcurrentCallersShareOneFetch ==
  /\ Len(runResult) = entry.runs
  /\ Cardinality({r \in 1..Len(runResult) : runResult[r] = "pending"})
       = IF entry.fetching THEN 1 ELSE 0
  /\ \A i \in 1..Len(callers) :
       /\ callers[i].st = "waiting" =>
            entry.fetching /\ callers[i].run = entry.runs
       /\ (callers[i].st = "resolved" /\ callers[i].run > 0) =>
            callers[i].result = runResult[callers[i].run]

\* C5 (witness): three calls made while the entry was stale have resolved to
\* the result of its first and only execution
ThreeCallersOneFetch ==
  /\ Len(callers) = 3
  /\ entry.runs = 1
  /\ \A i \in 1..3 : callers[i].st = "resolved" /\ callers[i].run = 1

\* C6: when a fetch settles, exactly one more execution starts if invalidate()
\* was called (once or more) while it was outstanding, and none otherwise;
\* nothing stays owed.
InvalidationsCoalesce ==
  [][(entry.fetching /\ runResult'[entry.runs] # "pending") =>
       /\ entry'.runs = entry.runs + (IF entry.inv >= 1 THEN 1 ELSE 0)
       /\ entry'.fetching = (entry.inv >= 1)
       /\ ~entry'.owed /\ entry'.inv = 0]_vars

\* C6 (witness): a follow-up execution is outstanding after a fetch during
\* which invalidate() was called twice
FollowUpAfterTwoInvalidates ==
  /\ entry.absorbed = 2
  /\ entry.runs = 2 /\ entry.fetching /\ ~entry.owed
  /\ runResult = <<"v1", "pending">>

\* the step in which the outstanding fetch fails
FetchFails == entry.fetching /\ runResult'[entry.runs] = "error"

\* every caller waiting for the failing fetch is rejected, and the failure is
\* neither committed nor made fresh
FailureRejectsWaiters ==
  /\ \A i \in 1..Len(callers) :
       callers[i].st = "waiting" =>
         callers'[i].st = "rejected" /\ callers'[i].result = "error"
  /\ ~entry'.valid
  /\ entry'.value = entry.value

\* a getValue() on a stale entry with no fetch outstanding starts an execution
RetryOnNextGetValue ==
  (~entry.valid /\ ~entry.fetching /\ Len(callers') > Len(callers)) =>
    /\ entry'.runs = entry.runs + 1 /\ entry'.fetching
    /\ callers'[Len(callers')] =
         [st |-> "waiting", run |-> entry.runs + 1, result |-> "none"]

\* C7 (as amended): a failing computation rejects every caller waiting for it
\* and leaves the entry stale; unless an invalidation was requested during
\* that fetch no fetch is outstanding afterwards and the next getValue()
\* starts a new computation; if one was requested, the owed computation
\* starts at once.
FailureLeavesStaleAndRetries ==
  [][/\ FetchFails =>
          /\ FailureRejectsWaiters
          /\ ~entry.owed => (~entry'.fetching /\ entry'.runs = entry.runs)
          /\ entry.owed => (entry'.fetching /\ entry'.runs = entry.runs + 1)
     /\ RetryOnNextGetValue]_vars

\* C7 (witness): a caller was rejected by a failed computation and a later
\* getValue() waits for a new one
RejectedThenRetried ==
  /\ Len(callers) >= 2
  /\ callers[1].st = "rejected" /\ callers[1].run = 1
  /\ callers[2].st = "waiting" /\ callers[2].run = 2
  /\ entry.inv = 0 /\ runResult = <<"error", "pending">>

\* C7 (as claimed): after a failing computation no fetch is outstanding.
FailureLeavesNoFetchOutstanding ==
  [][FetchFails =>
       /\ FailureRejectsWaiters
       /\ ~entry'.fetching /\ entry'.runs = entry.runs]_vars

====
